---- MODULE Spec2Model ----
(***************************************************************************)
(* Model of the specification-driven example assembler HRTFDataset         *)
(* (src/hrtfdata/torch/full.py): construction (__init__), __len__ and      *)
(* __getitem__, together with the catalog and providers it calls.          *)
(*                                                                         *)
(* Python dicts are modelled as sequences of [key, ...] records in         *)
(* insertion order; None is modelled by an option record [some |-> FALSE]. *)
(* Angles are integer degrees.                                             *)
(***************************************************************************)
EXTENDS Integers, Sequences, FiniteSets, TLC

\* ------------------------------------------------------------------ bounds
MaxSubjects == 2
MaxHrirLen == 2

Subjects == 1..MaxSubjects

\* ------------------------------------------------------- program constants
ResizedSide == 32
BoxHalf == 128
AllcloseRtolInv == 100000

\* --------------------------------------------------------- generic helpers
Abs(x) == IF x < 0 THEN -x ELSE x

Range(s) == {s[i] : i \in 1..Len(s)}

Reverse(s) == [i \in 1..Len(s) |-> s[Len(s) + 1 - i]]

RECURSIVE SetToSeq(_)
\* the ascending enumeration of a finite set of integers
SetToSeq(S) ==
    IF S = {} THEN <<>>
    ELSE LET m == CHOOSE x \in S : \A y \in S : x <= y
         IN <<m>> \o SetToSeq(S \ {m})

RECURSIVE Flatten(_)
Flatten(ss) == IF ss = <<>> THEN <<>> ELSE Head(ss) \o Flatten(Tail(ss))

\* ------------------------------------------------------------ Python dicts
Keys(d) == [i \in 1..Len(d) |-> d[i].key]

KeySet(d) == {d[i].key : i \in 1..Len(d)}

HasKey(d, k) == k \in KeySet(d)

IndexOfKey(d, k) == CHOOSE i \in 1..Len(d) : d[i].key = k

\* d[k]
Item(d, k) == d[IndexOfKey(d, k)]

\* {**a, **b}: a key of b already in a keeps a's position and takes b's entry,
\* a new key of b is appended in b's order
RECURSIVE DictMerge(_, _)
DictMerge(a, b) ==
    IF b = <<>> THEN a
    ELSE LET e == Head(b)
             a1 == IF HasKey(a, e.key)
                   THEN [a EXCEPT ![IndexOfKey(a, e.key)] = e]
                   ELSE Append(a, e)
         IN DictMerge(a1, Tail(b))

\* -------------------------------------------------- specifications (input)
Absent == ""

NoneAngles == [some |-> FALSE, v |-> <<>>]

SomeAngles(v) == [some |-> TRUE, v |-> v]

Cfg(side, domain, rear, select) ==
    [side |-> side, domain |-> domain, rear |-> rear, select |-> select,
     row_angles |-> NoneAngles, column_angles |-> NoneAngles,
     fundamental_angles |-> NoneAngles, orthogonal_angles |-> NoneAngles]

EmptyCfg == Cfg(Absent, Absent, Absent, Absent)

Entry(key, cfg) == [key |-> key, cfg |-> cfg]

\* cfg.get(field, default)
DictGet(v, default) == IF v = Absent THEN default ELSE v

NoneSpec == [some |-> FALSE, v |-> <<>>]

SomeSpec(v) == [some |-> TRUE, v |-> v]

NoneIds == [kind |-> "none", ids |-> {}]

StrIds == [kind |-> "str", ids |-> {}]

ListIds(S) == [kind |-> "list", ids |-> S]

\* ---------------------------------------------------------------- state
VARIABLES
    \* constructor arguments
    datapoint,              \* the DataPoint: its catalog, grid and measurements
    feature_spec,
    target_spec,
    group_spec,
    arg_subject_ids,        \* the subject_ids argument (include-list)
    subject_requirements,
    arg_exclude_ids,        \* the exclude_ids argument
    transforms,             \* which on-demand transforms are set
    \* position in __init__ and its outcome
    pc,
    error,
    \* attributes of the dataset and locals of __init__
    self_exclude_ids,
    self_specification,
    ear_ids,
    subject_ids,
    sides,
    self_selected_angles,
    row_indices,
    column_indices,
    row_angles,
    column_angles,
    self_features,
    self_targets,
    self_groups,
    \* the calls made to the catalog and the providers, in order
    calls,
    \* what the last ready-state operation returned
    result,
    \* the plane-aware facade: its arguments and its position in __init__
    facade,
    facade_pc,
    hrir_angles,            \* the fundamental and orthogonal angles it asks for
    self_planar_transform,
    plane_angles

planar == <<facade, facade_pc, hrir_angles, self_planar_transform, plane_angles>>

args == <<datapoint, feature_spec, target_spec, group_spec, arg_subject_ids,
          subject_requirements, arg_exclude_ids, transforms>>

attrs == <<self_exclude_ids, self_specification, ear_ids, subject_ids, sides,
           self_selected_angles, row_indices, column_indices, row_angles,
           column_angles, self_features, self_targets, self_groups>>

vars == <<planar, args, pc, error, attrs, calls, result>>

\* the constructor has returned the dataset to its caller
Returned == pc = "ready" /\ facade_pc \in {"none", "done"}

\* ------------------------------------------------- the catalog (datapoint.query)
\* ids the catalog leaves out when no exclude_subjects is passed
DefaultExcluded == {1}

CollectionId == "collection-id"

NoExclude == [some |-> FALSE, ids |-> {}]

SomeExclude(S) == [some |-> TRUE, ids |-> S]

\* a subject satisfies a specification when it has every modality/requirement named
Matches(dp, spec, s) == KeySet(spec) \cap dp.missing[s] = {}

SelectedSubjects(dp, spec, include, exclude) ==
    LET excl == IF exclude.some THEN exclude.ids ELSE DefaultExcluded
        base == {s \in Subjects : Matches(dp, spec, s) /\ s \notin excl}
    IN CASE include.kind = "none" -> base
         [] include.kind = "list" -> base \cap include.ids
         [] include.kind = "str"  ->
                IF base = {} THEN {}
                ELSE {CHOOSE x \in base : \A y \in base : x <= y}

\* specification_based_ids(spec, include_subjects, exclude_subjects):
\* the ordered (subject, side) pairs
specification_based_ids(dp, spec, include, exclude) ==
    LET subs == SetToSeq(SelectedSubjects(dp, spec, include, exclude))
    IN Flatten([i \in 1..Len(subs) |->
                  [j \in 1..Len(dp.ears) |-> <<subs[i], dp.ears[j]>>]])

\* ------------------------------------------------------------- the providers
\* hrir_angle_indices(subject, row_angles, column_angles): the selected angle map
\* (row angle -> column angles) and the row and column indices (1-based here)
AngleIndices(avail, req) ==
    IF ~req.some THEN [i \in 1..Len(avail) |-> i]
    ELSE SetToSeq({i \in 1..Len(avail) : avail[i] \in Range(req.v)})

hrir_angle_indices(dp, subject, row_req, col_req) ==
    LET ri == AngleIndices(dp.rows, row_req)
        ci == AngleIndices(dp.cols, col_req)
        found == /\ row_req.some => Range(row_req.v) \subseteq Range(dp.rows)
                 /\ col_req.some => Range(col_req.v) \subseteq Range(dp.cols)
    IN [ok |-> found,
        selected_angles |->
            [i \in 1..Len(ri) |->
                [row |-> dp.rows[ri[i]],
                 cols |-> [j \in 1..Len(ci) |-> dp.cols[ci[j]]]]],
        row_indices |-> ri,
        column_indices |-> ci]

Value(mod, subject, side, arg, shape) ==
    [mod |-> mod, subject |-> subject, side |-> side, arg |-> arg,
     shape |-> shape, stage |-> "raw"]

pinna_image(dp, subject, side, rear) ==
    Value("images", subject, side, rear, <<2 * BoxHalf, 2 * BoxHalf>>)

anthropomorphic_data(dp, subject, side, select) ==
    Value("anthropometry", subject, side, select,
          <<IF select = "None" THEN 2 ELSE 1>>)

hrir(dp, subject, side, domain, ri, ci) ==
    Value("hrirs", subject, side, domain,
          <<Len(ri), Len(ci), dp.hrir_len[subject]>>)

\* the plain values stored for 'subject', 'side' and 'collection'
SubjectValue(subject) == Value("subject", subject, "", "", <<>>)

SideValue(side) == Value("side", 0, side, "", <<>>)

CollectionValue == Value("collection", 0, "", CollectionId, <<>>)

Call(fn, subject, side, spec, include, exclude) ==
    [fn |-> fn, subject |-> subject, side |-> side, spec |-> spec,
     include |-> include, exclude |-> exclude,
     row_indices |-> <<>>, column_indices |-> <<>>,
     row_angles |-> NoneAngles, column_angles |-> NoneAngles]

QueryCall(spec, include, exclude) ==
    Call("specification_based_ids", 0, "", Keys(spec), include, exclude)

ProviderCall(fn, subject, side) ==
    Call(fn, subject, side, <<>>, NoneIds, NoExclude)

\* datapoint.hrir(subject, side=side, ..., row_indices=..., column_indices=...)
HrirCall(subject, side, ri, ci) ==
    [ProviderCall("hrir", subject, side) EXCEPT !.row_indices = ri,
                                                !.column_indices = ci]

\* datapoint.hrir_angle_indices(subject, row_angles, column_angles)
GridCall(subject, row_req, col_req) ==
    [ProviderCall("hrir_angle_indices", subject, "") EXCEPT
        !.row_angles = row_req, !.column_angles = col_req]

MeasurementFns == {"hrir", "pinna_image", "anthropomorphic_data"}

\* ------------------------------------------------ HRTFDataset.__init__
\* mutant: a missing exclude_ids always means "exclude nothing"
EffectiveExcludeIdsNoDefault(subject_ids_arg, exclude_ids_arg) ==
    IF ~exclude_ids_arg.some THEN SomeExclude({}) ELSE exclude_ids_arg

\* The exclude_ids handed on: an include-list that is not a string, with no
\* exclude_ids, means "exclude nothing"
EffectiveExcludeIds(subject_ids_arg, exclude_ids_arg) ==
    IF subject_ids_arg.kind # "none" /\ subject_ids_arg.kind # "str"
       /\ ~exclude_ids_arg.some
    THEN SomeExclude({})
    ELSE exclude_ids_arg

\* target_spec / group_spec of None become {}
OrEmpty(spec) == IF spec.some THEN spec.v ELSE <<>>

\* {**feature_spec, **target_spec, **group_spec}
MergedSpecification(fs, ts, gs) == DictMerge(DictMerge(fs, ts), gs)

\* mutant: the requirements count as a specification
NothingSpecifiedNorRequired(merged, requirements) ==
    DictMerge(merged, OrEmpty(requirements)) = <<>>

\* if not self._specification, before the requirements are merged in
NothingSpecified(merged, requirements) == merged = <<>>

MergeSpecification ==
    /\ pc = "uninitialized"
    /\ facade_pc \in {"none", "assembling"}
    /\ self_exclude_ids' = EffectiveExcludeIds(arg_subject_ids, arg_exclude_ids)
    /\ LET merged == MergedSpecification(feature_spec, OrEmpty(target_spec),
                                         OrEmpty(group_spec))
       IN IF NothingSpecified(merged, subject_requirements)
          THEN /\ pc' = "failed"
               /\ error' = "ValueError: At least one specification should not be empty"
               /\ UNCHANGED self_specification
          ELSE /\ pc' = "resolving-ids"
               /\ self_specification' =
                    IF subject_requirements.some
                    THEN DictMerge(merged, subject_requirements.v)
                    ELSE merged
               /\ UNCHANGED error
    /\ UNCHANGED <<planar, args, ear_ids, subject_ids, sides, self_selected_angles,
                   row_indices, column_indices, row_angles, column_angles,
                   self_features, self_targets, self_groups, calls, result>>

\* mutant: the test on the unfiltered query inverted
IsEmptyDatasetInverted(unfiltered) == Len(unfiltered) # 0

\* mutant: every empty filtered query is an error
IsEmptyDatasetAlways(unfiltered) == TRUE

\* with no filtered id left: an unfiltered query that is empty too is an error
IsEmptyDataset(unfiltered) == Len(unfiltered) = 0

\* mutant: the construction goes over every id of the catalog
EarIdsOfCatalog(dp, spec, include, exclude) ==
    specification_based_ids(dp, spec, NoneIds, NoExclude)

\* ear_ids: the catalog's answer to the query with the include- and the
\* exclude-list
EarIds(dp, spec, include, exclude) ==
    specification_based_ids(dp, spec, include, exclude)

ResolveIds ==
    /\ pc = "resolving-ids"
    /\ LET filtered == EarIds(datapoint, self_specification,
                              arg_subject_ids, self_exclude_ids)
           unfiltered == specification_based_ids(datapoint, self_specification,
                                                 NoneIds, NoExclude)
           first == QueryCall(self_specification, arg_subject_ids, self_exclude_ids)
           second == QueryCall(self_specification, NoneIds, NoExclude)
       IN /\ ear_ids' = filtered
          /\ IF Len(filtered) = 0
             THEN /\ calls' = calls \o <<first, second>>
                  /\ IF IsEmptyDataset(unfiltered)
                     THEN /\ pc' = "failed"
                          /\ error' = "ValueError: Empty dataset"
                     ELSE /\ pc' = "ready"
                          /\ UNCHANGED error
                  \* subject_ids = (), stores = [], angles = array([])
                  /\ UNCHANGED <<subject_ids, sides>>
             ELSE /\ calls' = Append(calls, first)
                  /\ subject_ids' = [i \in 1..Len(filtered) |-> filtered[i][1]]
                  /\ sides' = [i \in 1..Len(filtered) |-> filtered[i][2]]
                  /\ pc' = "resolving-grid"
                  /\ UNCHANGED error
    /\ UNCHANGED <<planar, args, self_exclude_ids, self_specification,
                   self_selected_angles, row_indices, column_indices, row_angles,
                   column_angles, self_features, self_targets, self_groups, result>>

\* np.isclose(a, b): |a - b| <= atol + rtol * |b|; on integer degrees the
\* absolute tolerance 1e-8 never decides
IsClose(a, b) == AllcloseRtolInv * Abs(a - b) <= Abs(b)

\* np.allclose(a, b) on arrays of one length
AllClose(a, b) == \A i \in 1..Len(a) : IsClose(a[i], b[i])

Negate(a) == [i \in 1..Len(a) |-> -a[i]]

\* side.startswith('both-')
StartsWithBoth(side) == side \in {"both-left", "both-right"}

\* mutant: the flipped angles are not negated
SymmetricAzimuthsNoNegate(ra) ==
    LET start_idx == IF IsClose(ra[1], -180) THEN 1 ELSE 0
        rest == SubSeq(ra, start_idx + 1, Len(ra))
    IN AllClose(rest, Reverse(rest))

\* mirror azimuths/rows: a leading -180 is left out of the comparison
SymmetricAzimuths(ra) ==
    LET start_idx == IF IsClose(ra[1], -180) THEN 1 ELSE 0
        rest == SubSeq(ra, start_idx + 1, Len(ra))
    IN AllClose(rest, Negate(Reverse(rest)))

\* mirror laterals/columns
SymmetricLaterals(ca) == AllClose(ca, Negate(Reverse(ca)))

\* mutant: the grid is resolved for the last subject
GridSubjectLast(ids) == ids[Len(ids)]

\* self.subject_ids[0]: the subject whose grid stands for all
GridSubject(ids) == ids[1]

MetaCalls(subject) ==
    <<ProviderCall("hrir_samplerate", subject, ""),
      ProviderCall("hrir_length", subject, ""),
      ProviderCall("hrtf_frequencies", subject, "")>>

\* self._specification['hrirs'].get('row_angles'), .get('column_angles')
RequestedAngles(cfg) == [rows |-> cfg.row_angles, columns |-> cfg.column_angles]

\* the Assembler under the facade reads the request under the names of the
\* facade: the fundamental axis is the row axis of the grid
RequestedPlaneAngles(cfg) ==
    [rows |-> cfg.fundamental_angles, columns |-> cfg.orthogonal_angles]

ResolveGrid ==
    /\ pc = "resolving-grid"
    /\ IF HasKey(self_specification, "hrirs")
       THEN LET cfg == Item(self_specification, "hrirs").cfg
                req == IF facade.used THEN RequestedPlaneAngles(cfg)
                       ELSE RequestedAngles(cfg)
                r == hrir_angle_indices(datapoint, GridSubject(subject_ids),
                                        req.rows, req.columns)
                ra == [i \in 1..Len(r.selected_angles) |-> r.selected_angles[i].row]
                ca == r.selected_angles[1].cols
                side == DictGet(cfg.side, "")
                gridCall == GridCall(GridSubject(subject_ids),
                                     req.rows, req.columns)
            IN IF ~r.ok
               THEN /\ pc' = "failed"
                    /\ error' = "LookupError"
                    /\ calls' = Append(calls, gridCall)
                    /\ UNCHANGED <<self_selected_angles, row_indices,
                                   column_indices, row_angles, column_angles>>
               ELSE IF r.selected_angles = <<>>
               THEN /\ pc' = "failed"
                    /\ error' = "IndexError"
                    /\ calls' = Append(calls, gridCall)
                    /\ self_selected_angles' = r.selected_angles
                    /\ row_indices' = r.row_indices
                    /\ column_indices' = r.column_indices
                    /\ row_angles' = ra
                    /\ UNCHANGED column_angles
               ELSE /\ self_selected_angles' = r.selected_angles
                    /\ row_indices' = r.row_indices
                    /\ column_indices' = r.column_indices
                    /\ row_angles' = ra
                    /\ column_angles' = ca
                    /\ IF StartsWithBoth(side) /\ datapoint.spherical
                          /\ ~SymmetricAzimuths(ra)
                       THEN /\ pc' = "failed"
                            /\ error' = "ValueError: symmetric azimuths"
                            /\ calls' = Append(calls, gridCall)
                       ELSE IF StartsWithBoth(side) /\ ~datapoint.spherical
                               /\ ~SymmetricLaterals(ca)
                       THEN /\ pc' = "failed"
                            /\ error' = "ValueError: symmetric lateral angles"
                            /\ calls' = Append(calls, gridCall)
                       ELSE /\ pc' = "building-stores"
                            /\ calls' = calls \o <<gridCall>>
                                        \o MetaCalls(subject_ids[1])
                            /\ UNCHANGED error
       ELSE /\ self_selected_angles' = <<>>
            /\ row_angles' = <<>>
            /\ column_angles' = <<>>
            /\ pc' = "building-stores"
            /\ calls' = calls \o MetaCalls(subject_ids[1])
            /\ UNCHANGED <<row_indices, column_indices, error>>
    /\ UNCHANGED <<planar, args, self_exclude_ids, self_specification, ear_ids,
                   subject_ids, sides, self_features, self_targets, self_groups,
                   result>>

\* the order in which __init__ fills an example's record
FillOrder == <<"images", "anthropometry", "hrirs", "subject", "side", "collection">>

\* the value stored under key k for one (subject, side) and one role's spec
Fetched(dp, spec, k, subject, side, ri, ci) ==
    CASE k = "images" ->
            pinna_image(dp, subject, side, DictGet(Item(spec, k).cfg.rear, "False"))
      [] k = "anthropometry" ->
            anthropomorphic_data(dp, subject, side,
                                 DictGet(Item(spec, k).cfg.select, "None"))
      [] k = "hrirs" ->
            hrir(dp, subject, side, DictGet(Item(spec, k).cfg.domain, "time"), ri, ci)
      [] k = "subject" -> SubjectValue(subject)
      [] k = "side" -> SideValue(side)
      [] k = "collection" -> CollectionValue

\* subject_data: one role's record for one (subject, side)
SubjectData(dp, spec, subject, side, ri, ci) ==
    Flatten([n \in 1..Len(FillOrder) |->
        IF HasKey(spec, FillOrder[n])
        THEN <<[key |-> FillOrder[n],
                val |-> Fetched(dp, spec, FillOrder[n], subject, side, ri, ci)]>>
        ELSE <<>>])

ProviderOf(k) ==
    CASE k = "images" -> "pinna_image"
      [] k = "anthropometry" -> "anthropomorphic_data"
      [] k = "hrirs" -> "hrir"
      [] OTHER -> ""

\* the provider calls one role's record costs, in order
FetchCalls(spec, subject, side, ri, ci) ==
    Flatten([n \in 1..Len(FillOrder) |->
        IF HasKey(spec, FillOrder[n]) /\ ProviderOf(FillOrder[n]) # ""
        THEN IF FillOrder[n] = "hrirs"
             THEN <<HrirCall(subject, side, ri, ci)>>
             ELSE <<ProviderCall(ProviderOf(FillOrder[n]), subject, side)>>
        ELSE <<>>])

\* one pass of "for subject, side in ear_ids"
\* mutant: the loop leaves out the last pair
LoopDoneEarly(i, ids) == i >= Len(ids) - 1

\* for subject, side in ear_ids: the pair at position i was the last one
LoopDone(i, ids) == i = Len(ids)

\* one pass of the loop over ear_ids; a measurement provider that raises ends
\* the construction after the records appended before its call
FetchExample ==
    /\ pc = "building-stores"
    /\ LET i == Len(self_features) + 1
           subject == ear_ids[i][1]
           side == ear_ids[i][2]
           ts == OrEmpty(target_spec)
           gs == OrEmpty(group_spec)
           Data(spec) == SubjectData(datapoint, spec, subject, side,
                                     row_indices, column_indices)
           fc == FetchCalls(feature_spec, subject, side, row_indices, column_indices)
           tc == FetchCalls(ts, subject, side, row_indices, column_indices)
           gc == FetchCalls(gs, subject, side, row_indices, column_indices)
           raises == subject \in datapoint.broken
       IN IF raises /\ fc \o tc \o gc # <<>>
          THEN /\ pc' = "failed"
               /\ error' = "ProviderError"
               /\ calls' = calls \o <<(fc \o tc \o gc)[1]>>
               /\ self_features' = IF fc = <<>>
                                   THEN Append(self_features, Data(feature_spec))
                                   ELSE self_features
               /\ self_targets' = IF fc = <<>> /\ tc = <<>>
                                  THEN Append(self_targets, Data(ts))
                                  ELSE self_targets
               /\ UNCHANGED self_groups
          ELSE /\ self_features' = Append(self_features, Data(feature_spec))
               /\ self_targets' = Append(self_targets, Data(ts))
               /\ self_groups' = Append(self_groups, Data(gs))
               /\ calls' = calls \o fc \o tc \o gc
               /\ pc' = IF LoopDone(i, ear_ids) THEN "ready" ELSE "building-stores"
               /\ UNCHANGED error
    /\ UNCHANGED <<planar, args, self_exclude_ids, self_specification, ear_ids,
                   subject_ids, sides, self_selected_angles, row_indices,
                   column_indices, row_angles, column_angles, result>>

\* ------------------------------------------------- HRTFDataset.__len__
DatasetLen == Len(self_features)

\* ------------------------------------------------- HRTFDataset.__getitem__
\* the on-demand transforms of get_single_item, applied to one entry of the
\* unified record
OnDemand(e, tf) ==
    CASE e.key = "images" ->
            [e EXCEPT !.val.shape = <<ResizedSide, ResizedSide>>,
                      !.val.stage = IF tf.image THEN "transformed" ELSE "resized"]
      [] e.key = "anthropometry" /\ tf.measurement ->
            [e EXCEPT !.val.stage = "transformed"]
      [] e.key = "hrirs" /\ tf.hrir ->
            [e EXCEPT !.val.stage = "transformed"]
      [] OTHER -> e

\* characteristics = {**features, **target, **group}, then transformed
Characteristics(features, target, group, tf) ==
    LET unified == DictMerge(DictMerge(features, target), group)
    IN [i \in 1..Len(unified) |-> OnDemand(unified[i], tf)]

EmptyShaped == [kind |-> "empty", items |-> <<>>]

\* mutant: a single value is wrapped in a 1-tuple
shape_data_wrapping(keys, characteristics) ==
    IF Len(keys) = 0 THEN EmptyShaped
    ELSE [kind |-> "tuple",
          items |-> [i \in 1..Len(keys) |-> Item(characteristics, keys[i]).val]]

\* shape_data(keys): np.array([]) for no key, the value itself for one key,
\* a tuple of the values in the order of keys otherwise
shape_data(keys, characteristics) ==
    IF Len(keys) = 0 THEN EmptyShaped
    ELSE IF Len(keys) = 1
    THEN [kind |-> "value", items |-> <<Item(characteristics, keys[1]).val>>]
    ELSE [kind |-> "tuple",
          items |-> [i \in 1..Len(keys) |-> Item(characteristics, keys[i]).val]]

get_single_item(features, target, group, tf) ==
    LET characteristics == Characteristics(features, target, group, tf)
    IN [features |-> shape_data(Keys(features), characteristics),
        target |-> shape_data(Keys(target), characteristics),
        group |-> shape_data(Keys(group), characteristics)]

NoItem == [features |-> EmptyShaped, target |-> EmptyShaped, group |-> EmptyShaped]

NoBatch == [features |-> <<>>, target |-> <<>>, group |-> <<>>]

NoResult ==
    [op |-> "none", idx |-> 0, start |-> 0, stop |-> 0, error |-> "",
     n |-> 0, item |-> NoItem, batch |-> NoBatch,
     ids |-> <<>>, shape |-> <<>>, query |-> <<>>, flag |-> FALSE]

\* list[idx] for an int idx (0-based, negative counts from the end): the
\* 1-based position, or 0 when out of range
PyIndex(n, idx) ==
    IF idx >= 0 /\ idx < n THEN idx + 1
    ELSE IF idx < 0 /\ idx >= -n THEN n + idx + 1
    ELSE 0

\* list[start:stop] for 0 <= start, stop
PySlice(s, start, stop) ==
    LET hi == IF stop > Len(s) THEN Len(s) ELSE stop
    IN IF start >= hi THEN <<>> ELSE SubSeq(s, start + 1, hi)

\* the shape np.stack sees for one shaped value
ShapeOf(shaped) ==
    IF shaped.kind = "empty" THEN <<<<0>>>>
    ELSE [i \in 1..Len(shaped.items) |-> shaped.items[i].shape]

\* mutant: only the number of dimensions is compared
StackableByRank(values) ==
    \A i, j \in 1..Len(values) :
        /\ Len(ShapeOf(values[i])) = Len(ShapeOf(values[j]))
        /\ \A n \in 1..Len(ShapeOf(values[i])) :
                Len(ShapeOf(values[i])[n]) = Len(ShapeOf(values[j])[n])

\* np.stack raises ValueError unless all input arrays have the same shape
Stackable(values) ==
    \A i, j \in 1..Len(values) : ShapeOf(values[i]) = ShapeOf(values[j])

\* mutant: the items are stacked in reverse order
StackItemsReversed(items) ==
    [features |-> Reverse([i \in 1..Len(items) |-> items[i].features]),
     target |-> Reverse([i \in 1..Len(items) |-> items[i].target]),
     group |-> Reverse([i \in 1..Len(items) |-> items[i].group])]

\* {k: np.stack([d[k] for d in items]) for k in items[0].keys()}
StackItems(items) ==
    [features |-> [i \in 1..Len(items) |-> items[i].features],
     target |-> [i \in 1..Len(items) |-> items[i].target],
     group |-> [i \in 1..Len(items) |-> items[i].group]]

\* mutant: the transformed values are written into the stored record
RecordWrittenThrough(record, characteristics) ==
    [i \in 1..Len(record) |->
        [key |-> record[i].key, val |-> Item(characteristics, record[i].key).val]]

\* a stored record after a retrieval: get_single_item assigns the transformed
\* values into the merged copy of the three records only
RecordAfterRetrieval(record, characteristics) == record

\* a store after the retrieval of the examples at the positions ps
StoreAfterRetrieval(store, ps) ==
    [i \in 1..Len(store) |->
        IF i \in ps
        THEN RecordAfterRetrieval(store[i],
                Characteristics(self_features[i], self_targets[i], self_groups[i],
                                transforms))
        ELSE store[i]]

Retrieved(ps) ==
    /\ self_features' = StoreAfterRetrieval(self_features, ps)
    /\ self_targets' = StoreAfterRetrieval(self_targets, ps)
    /\ self_groups' = StoreAfterRetrieval(self_groups, ps)
    /\ UNCHANGED <<planar, args, pc, error, calls, self_exclude_ids,
                   self_specification, ear_ids, subject_ids, sides,
                   self_selected_angles, row_indices, column_indices, row_angles,
                   column_angles>>

GetItemInt(idx) ==
    /\ Returned
    /\ LET p == PyIndex(Len(self_features), idx)
       IN /\ result' =
               IF p = 0
               THEN [NoResult EXCEPT !.op = "single", !.idx = idx,
                                     !.error = "IndexError"]
               ELSE [NoResult EXCEPT !.op = "single", !.idx = idx,
                       !.item = get_single_item(self_features[p], self_targets[p],
                                                self_groups[p], transforms)]
          /\ Retrieved({p})

GetItemSlice(start, stop) ==
    /\ Returned
    /\ LET fs == PySlice(self_features, start, stop)
           ts == PySlice(self_targets, start, stop)
           gs == PySlice(self_groups, start, stop)
           items == [i \in 1..Len(fs) |->
                        get_single_item(fs[i], ts[i], gs[i], transforms)]
           stacked == StackItems(items)
           base == [NoResult EXCEPT !.op = "batch", !.start = start, !.stop = stop]
       IN result' =
            IF Len(items) = 0
            THEN [base EXCEPT !.error = "IndexError"]
            ELSE IF /\ Stackable(stacked.features)
                    /\ Stackable(stacked.target)
                    /\ Stackable(stacked.group)
            THEN [base EXCEPT !.batch = stacked]
            ELSE [base EXCEPT
                    !.error = "ValueError: Not all data points have the same shape"]
    /\ Retrieved({i \in 1..Len(self_features) : start < i /\ i <= stop})

GetLen ==
    /\ Returned
    /\ result' = [NoResult EXCEPT !.op = "len", !.n = DatasetLen]
    /\ UNCHANGED <<planar, args, pc, error, attrs, calls>>

\* np.atleast_1d: a scalar becomes an array of one element
AtLeast1d(shape) == IF shape = <<>> THEN <<1>> ELSE shape

RECURSIVE SumSeq(_)
SumSeq(s) == IF s = <<>> THEN 0 ELSE Head(s) + SumSeq(Tail(s))

\* np.hstack: concatenation along the first axis for 1-d arrays and along the
\* second otherwise; the other dimensions must agree
HStackAxis(shapes) == IF Len(AtLeast1d(shapes[1])) = 1 THEN 1 ELSE 2

HStackable(shapes) ==
    /\ shapes # <<>>
    /\ \A i \in 1..Len(shapes) :
          /\ Len(AtLeast1d(shapes[i])) = Len(AtLeast1d(shapes[1]))
          /\ \A d \in 1..Len(AtLeast1d(shapes[1])) :
                d # HStackAxis(shapes) =>
                    AtLeast1d(shapes[i])[d] = AtLeast1d(shapes[1])[d]

HStackShape(shapes) ==
    [AtLeast1d(shapes[1]) EXCEPT ![HStackAxis(shapes)] =
        SumSeq([i \in 1..Len(shapes) |-> AtLeast1d(shapes[i])[HStackAxis(shapes)]])]

\* target_shape: np.hstack(tuple(self._targets[0].values())).shape
TargetShape ==
    /\ Returned
    /\ LET base == [NoResult EXCEPT !.op = "target_shape"]
       IN result' =
            IF Len(self_targets) = 0
            THEN [base EXCEPT !.error = "IndexError"]
            ELSE LET shapes == [i \in 1..Len(self_targets[1]) |->
                                   self_targets[1][i].val.shape]
                 IN IF HStackable(shapes)
                    THEN [base EXCEPT !.shape = HStackShape(shapes)]
                    ELSE [base EXCEPT !.error = "ValueError"]
    /\ UNCHANGED <<planar, args, pc, error, attrs, calls>>

\* mutant: the include-list of the construction is passed on
AvailableIncludeAsConstructed(include) == include

\* available_subject_ids passes no include list to the catalog
AvailableInclude(include) == NoneIds

\* available_subject_ids: a fresh catalog query, then
\* subject_ids, _ = zip(*ear_ids); tuple(sorted(set(subject_ids)))
AvailableSubjectIds ==
    /\ Returned
    /\ LET include == AvailableInclude(arg_subject_ids)
           query == QueryCall(self_specification, include, self_exclude_ids)
           ids == specification_based_ids(datapoint, self_specification,
                                          include, self_exclude_ids)
           base == [NoResult EXCEPT !.op = "available_subject_ids",
                                    !.query = <<query>>]
       IN result' =
            IF Len(ids) = 0
            THEN [base EXCEPT !.error = "ValueError"]
            ELSE [base EXCEPT !.ids = SetToSeq({ids[i][1] : i \in 1..Len(ids)})]
    /\ UNCHANGED <<planar, args, pc, error, attrs, calls>>

\* ------------------------------------------------- the plane-aware facade
\* the planes PlaneMixin knows
Planes == {"horizontal", "median", "frontal", "vertical", "interaural"}

NoFacade ==
    [used |-> FALSE, system |-> "", plane |-> "", plane_offset |-> 0,
     plane_angles |-> NoneAngles, positive_angles |-> FALSE, side |-> "",
     domain |-> "", hrir_role |-> "", other_specs |-> <<>>]

Lateral_Vertical(lateral, vertical) == [orthogonal |-> lateral, fundamental |-> vertical]

Azimuth_Elevation(azimuth, elevation) == [fundamental |-> azimuth, orthogonal |-> elevation]

NoAngles == [fundamental |-> NoneAngles, orthogonal |-> NoneAngles]

\* an angle of a full turn folded onto the quarter turns either side of zero
Fold(a) == IF a > 90 THEN 180 - a ELSE IF a < -90 THEN -180 - a ELSE a

FoldAll(angles) == [i \in 1..Len(angles) |-> Fold(angles[i])]

\* util: the conversions of a given list of plane angles
lateral_vertical_from_yaw(yaw_angles, plane_offset) ==
    Lateral_Vertical(SomeAngles(FoldAll(yaw_angles)),
                     SomeAngles(<<plane_offset - 180, plane_offset>>))

lateral_vertical_from_pitch(pitch_angles, plane_offset) ==
    Lateral_Vertical(SomeAngles(<<plane_offset>>), SomeAngles(pitch_angles))

lateral_vertical_from_roll(roll_angles, plane_offset) ==
    Lateral_Vertical(SomeAngles(FoldAll(roll_angles)),
                     SomeAngles(<<plane_offset - 90, plane_offset + 90>>))

azimuth_elevation_from_yaw(yaw_angles, plane_offset) ==
    Azimuth_Elevation(SomeAngles(yaw_angles), SomeAngles(<<plane_offset>>))

azimuth_elevation_from_pitch(pitch_angles, plane_offset) ==
    Azimuth_Elevation(SomeAngles(<<plane_offset - 180, plane_offset>>),
                      SomeAngles(FoldAll(pitch_angles)))

azimuth_elevation_from_roll(roll_angles, plane_offset) ==
    Azimuth_Elevation(SomeAngles(<<plane_offset - 90, plane_offset + 90>>),
                      SomeAngles(FoldAll(roll_angles)))

\* mutant: no yaw angles asked gives the vertical angles of the roll
Interaural_lateral_vertical_from_yaw_as_roll(yaw_angles, plane_offset) ==
    IF ~yaw_angles.some
    THEN Lateral_Vertical(NoneAngles,
                          SomeAngles(<<plane_offset - 90, plane_offset + 90>>))
    ELSE lateral_vertical_from_yaw(yaw_angles.v, plane_offset)

\* InterauralPlaneMixin._lateral_vertical_from_yaw, _from_pitch, _from_roll
Interaural_lateral_vertical_from_yaw(yaw_angles, plane_offset) ==
    IF ~yaw_angles.some
    THEN Lateral_Vertical(NoneAngles, SomeAngles(<<plane_offset - 180, plane_offset>>))
    ELSE lateral_vertical_from_yaw(yaw_angles.v, plane_offset)

Interaural_lateral_vertical_from_pitch(pitch_angles, plane_offset) ==
    IF ~pitch_angles.some
    THEN Lateral_Vertical(SomeAngles(<<plane_offset>>), NoneAngles)
    ELSE lateral_vertical_from_pitch(pitch_angles.v, plane_offset)

Interaural_lateral_vertical_from_roll(roll_angles, plane_offset) ==
    IF ~roll_angles.some
    THEN Lateral_Vertical(NoneAngles,
                          SomeAngles(<<plane_offset - 90, plane_offset + 90>>))
    ELSE lateral_vertical_from_roll(roll_angles.v, plane_offset)

\* SphericalPlaneMixin._azimuth_elevation_from_yaw, _from_pitch, _from_roll
Spherical_azimuth_elevation_from_yaw(yaw_angles, plane_offset) ==
    IF ~yaw_angles.some
    THEN Azimuth_Elevation(NoneAngles, SomeAngles(<<plane_offset>>))
    ELSE azimuth_elevation_from_yaw(yaw_angles.v, plane_offset)

Spherical_azimuth_elevation_from_pitch(pitch_angles, plane_offset) ==
    IF ~pitch_angles.some
    THEN Azimuth_Elevation(SomeAngles(<<plane_offset - 180, plane_offset>>), NoneAngles)
    ELSE azimuth_elevation_from_pitch(pitch_angles.v, plane_offset)

Spherical_azimuth_elevation_from_roll(roll_angles, plane_offset) ==
    IF ~roll_angles.some
    THEN Azimuth_Elevation(SomeAngles(<<plane_offset - 90, plane_offset + 90>>),
                           NoneAngles)
    ELSE azimuth_elevation_from_roll(roll_angles.v, plane_offset)

\* mutant: the frontal plane is accepted at any offset
InterauralPlaneErrorFrontalAnywhere(plane, plane_offset) ==
    CASE plane = "horizontal" ->
            IF plane_offset # 0
            THEN "ValueError: Only the horizontal plane at vertical angle 0"
            ELSE ""
      [] plane \in {"median", "frontal", "interaural"} -> ""
      [] OTHER -> "ValueError: Unknown plane"

\* the error InterauralPlaneMixin.__init__ raises for a plane and an offset
InterauralPlaneError(plane, plane_offset) ==
    CASE plane = "horizontal" ->
            IF plane_offset # 0
            THEN "ValueError: Only the horizontal plane at vertical angle 0"
            ELSE ""
      [] plane = "median" -> ""
      [] plane = "frontal" ->
            IF plane_offset # 0
            THEN "ValueError: Only the frontal plane at vertical angles +/-90"
            ELSE ""
      [] plane = "interaural" -> ""
      [] OTHER -> "ValueError: Unknown plane"

\* the error SphericalPlaneMixin.__init__ raises for a plane and an offset
SphericalPlaneError(plane, plane_offset) ==
    CASE plane = "horizontal" -> ""
      [] plane = "median" ->
            IF plane_offset # 0
            THEN "ValueError: Only the median plane at azimuth 0"
            ELSE ""
      [] plane = "frontal" ->
            IF plane_offset # 0
            THEN "ValueError: Only the frontal plane at azimuth +/-90"
            ELSE ""
      [] plane = "vertical" -> ""
      [] OTHER -> "ValueError: Unknown plane"

\* the angles InterauralPlaneMixin.__init__ asks for on a plane it accepts
InterauralPlaneRequest(plane, angles, plane_offset) ==
    CASE plane = "horizontal" -> Interaural_lateral_vertical_from_yaw(angles, plane_offset)
      [] plane = "median" -> Interaural_lateral_vertical_from_pitch(angles, plane_offset)
      [] plane = "frontal" -> Interaural_lateral_vertical_from_roll(angles, plane_offset)
      [] plane = "interaural" -> Interaural_lateral_vertical_from_yaw(angles, plane_offset)

\* the angles SphericalPlaneMixin.__init__ asks for on a plane it accepts
SphericalPlaneRequest(plane, angles, plane_offset) ==
    CASE plane = "horizontal" -> Spherical_azimuth_elevation_from_yaw(angles, plane_offset)
      [] plane = "median" -> Spherical_azimuth_elevation_from_pitch(angles, plane_offset)
      [] plane = "frontal" -> Spherical_azimuth_elevation_from_roll(angles, plane_offset)
      [] plane = "vertical" -> Spherical_azimuth_elevation_from_pitch(angles, plane_offset)

NoTransform ==
    [built |-> FALSE, system |-> "", plane |-> "", plane_offset |-> 0,
     positive_angles |-> FALSE]

\* the Plane Transform constructors: plane, offset, flag and coordinate system
InterauralPlaneTransform(plane, plane_offset, positive_angles) ==
    [built |-> TRUE, system |-> "interaural", plane |-> plane,
     plane_offset |-> plane_offset, positive_angles |-> positive_angles]

SphericalPlaneTransform(plane, plane_offset, positive_angles) ==
    [built |-> TRUE, system |-> "spherical", plane |-> plane,
     plane_offset |-> plane_offset, positive_angles |-> positive_angles]

\* InterauralPlaneMixin.__init__ up to its super().__init__ call
InterauralPlaneMixinInit ==
    /\ facade_pc = "validating"
    /\ facade.system = "interaural"
    /\ LET raised == InterauralPlaneError(facade.plane, facade.plane_offset)
       IN IF raised # ""
          THEN /\ facade_pc' = "failed"
               /\ error' = raised
               /\ UNCHANGED <<hrir_angles, self_planar_transform>>
          ELSE /\ hrir_angles' = InterauralPlaneRequest(facade.plane,
                                    facade.plane_angles, facade.plane_offset)
               /\ self_planar_transform' =
                    InterauralPlaneTransform(facade.plane, facade.plane_offset,
                                             facade.positive_angles)
               /\ facade_pc' = "building-spec"
               /\ UNCHANGED error
    /\ UNCHANGED <<facade, plane_angles, args, pc, attrs, calls, result>>

\* SphericalPlaneMixin.__init__ up to its super().__init__ call
SphericalPlaneMixinInit ==
    /\ facade_pc = "validating"
    /\ facade.system = "spherical"
    /\ LET raised == SphericalPlaneError(facade.plane, facade.plane_offset)
       IN IF raised # ""
          THEN /\ facade_pc' = "failed"
               /\ error' = raised
               /\ UNCHANGED <<hrir_angles, self_planar_transform>>
          ELSE /\ hrir_angles' = SphericalPlaneRequest(facade.plane,
                                    facade.plane_angles, facade.plane_offset)
               /\ self_planar_transform' =
                    SphericalPlaneTransform(facade.plane, facade.plane_offset,
                                            facade.positive_angles)
               /\ facade_pc' = "building-spec"
               /\ UNCHANGED error
    /\ UNCHANGED <<facade, plane_angles, args, pc, attrs, calls, result>>

HrirRoles == {"features", "target", "group"}

\* hrir_role + '_spec'
SpecNameOf(role) ==
    CASE role = "features" -> "features_spec"
      [] role = "target" -> "target_spec"
      [] role = "group" -> "group_spec"

\* spec_name.split('_spec')[0]
SplitSpec(spec_name) ==
    CASE spec_name = "features_spec" -> "features"
      [] spec_name = "target_spec" -> "target"
      [] spec_name = "group_spec" -> "group"
      [] OTHER -> spec_name

\* mutant: the role is compared with the whole name of the specification
RoleTakenByName(hrir_role, spec_name) == hrir_role = spec_name

\* the role of the HRIRs is the one this other specification asks for
RoleTaken(hrir_role, spec_name) == hrir_role = SplitSpec(spec_name)

\* mutant: the angles of the plane are left out of the specification
HrirsSpecOfFullGrid(side, domain, angles) ==
    <<Entry("hrirs", Cfg(side, domain, Absent, Absent))>>

\* {'hrirs': {'fundamental_angles': ..., 'orthogonal_angles': ..., 'side': ...,
\*            'domain': ..., ...}}
HrirsSpec(side, domain, angles) ==
    <<Entry("hrirs", [Cfg(side, domain, Absent, Absent) EXCEPT
                        !.fundamental_angles = angles.fundamental,
                        !.orthogonal_angles = angles.orthogonal])>>

SpecEntry(name, spec) == [key |-> name, val |-> spec]

\* PlaneMixin.__init__ up to and with the call of the Assembler's constructor;
\* the assembler takes the features specification as a required argument
PlaneMixinInit ==
    /\ facade_pc = "building-spec"
    /\ LET hrirs_spec == HrirsSpec(facade.side, facade.domain, hrir_angles)
           other_specs == facade.other_specs
           specs == DictMerge(<<SpecEntry(SpecNameOf(facade.hrir_role), hrirs_spec)>>,
                              other_specs)
           Given(name) ==
                IF HasKey(specs, name) THEN SomeSpec(Item(specs, name).val)
                ELSE NoneSpec
       IN IF facade.plane \notin Planes
          THEN /\ facade_pc' = "failed"
               /\ error' = "ValueError: Unknown plane"
               /\ UNCHANGED <<feature_spec, target_spec, group_spec>>
          ELSE IF \E i \in 1..Len(other_specs) :
                    RoleTaken(facade.hrir_role, other_specs[i].key)
          THEN /\ facade_pc' = "failed"
               /\ error' = "ValueError: role is already taken by the HRIRs"
               /\ UNCHANGED <<feature_spec, target_spec, group_spec>>
          ELSE IF ~HasKey(specs, "features_spec")
          THEN /\ facade_pc' = "failed"
               /\ error' = "TypeError"
               /\ UNCHANGED <<feature_spec, target_spec, group_spec>>
          ELSE /\ facade_pc' = "assembling"
               /\ feature_spec' = Given("features_spec").v
               /\ target_spec' = Given("target_spec")
               /\ group_spec' = Given("group_spec")
               /\ UNCHANGED error
    /\ UNCHANGED <<facade, hrir_angles, self_planar_transform, plane_angles,
                   datapoint, arg_subject_ids, subject_requirements,
                   arg_exclude_ids, transforms, pc, attrs, calls, result>>

\* the two grid axes under the names the facade reads them by
fundamental_angles == row_angles

orthogonal_angles == column_angles

\* self._selection_mask: TRUE marks a cell of the grid that was not selected
selection_mask ==
    [i \in 1..Len(row_angles) |->
        [j \in 1..Len(column_angles) |->
            column_angles[j] \notin Range(self_selected_angles[i].cols)]]

\* the orientation of one cell on the plane of the transform
PlaneAngleOf(transform, fundamental, orthogonal) ==
    IF transform.system = "spherical" /\ transform.plane # "horizontal"
    THEN orthogonal
    ELSE fundamental

\* an angle brought into [0, 360) or into (-180, 180]
Normalized(angle, positive_angles) ==
    LET turn == angle % 360
    IN IF positive_angles \/ turn <= 180 THEN turn ELSE turn - 360

\* calc_plane_angles: one plane angle per cell the mask lets through
calc_plane_angles(transform, fundamental, orthogonal, mask) ==
    Flatten([i \in 1..Len(fundamental) |->
        Flatten([j \in 1..Len(orthogonal) |->
            IF mask[i][j] THEN <<>>
            ELSE <<Normalized(PlaneAngleOf(transform, fundamental[i], orthogonal[j]),
                              transform.positive_angles)>>])])

\* mutant: the plane angles are computed without waiting for the Assembler
CalcPlaneAnglesAtOnce ==
    /\ facade_pc = "assembling"
    /\ plane_angles' = calc_plane_angles(self_planar_transform, fundamental_angles,
                                         orthogonal_angles, selection_mask)
    /\ facade_pc' = "done"
    /\ UNCHANGED <<facade, hrir_angles, self_planar_transform, args, pc, error,
                   attrs, calls, result>>

\* the last statement of PlaneMixin.__init__, once the Assembler has returned
CalcPlaneAngles ==
    /\ facade_pc = "assembling"
    /\ pc = "ready"
    /\ plane_angles' = calc_plane_angles(self_planar_transform, fundamental_angles,
                                         orthogonal_angles, selection_mask)
    /\ facade_pc' = "done"
    /\ UNCHANGED <<facade, hrir_angles, self_planar_transform, args, pc, error,
                   attrs, calls, result>>

\* mutant: the write flips the flag
WrittenFlagToggled(current, value) == ~current

\* self._planar_transform.positive_angles = value
WrittenFlag(current, value) == value

\* mutant: the plane angles computed before the write are kept
PlaneAnglesAfterWriteKept(transform, current) == current

\* self.plane_angles = self._planar_transform.calc_plane_angles(...)
PlaneAnglesAfterWrite(transform, current) ==
    calc_plane_angles(transform, fundamental_angles, orthogonal_angles,
                      selection_mask)

\* the positive_angles setter; result.n counts the writes of one value in a row
SetPositiveAngles(value) ==
    /\ facade_pc = "done"
    /\ LET transform == [self_planar_transform EXCEPT !.positive_angles =
                            WrittenFlag(self_planar_transform.positive_angles, value)]
       IN /\ self_planar_transform' = transform
          /\ plane_angles' = PlaneAnglesAfterWrite(transform, plane_angles)
    /\ result' = [NoResult EXCEPT !.op = "set_positive_angles", !.flag = value,
                    !.n = IF result.op = "set_positive_angles" /\ result.flag = value
                          THEN 2 ELSE 1]
    /\ UNCHANGED <<facade, facade_pc, hrir_angles, args, pc, error, attrs, calls>>

\* ------------------------------------------------------- constructor inputs
Hrirs(side, domain) == Entry("hrirs", Cfg(side, domain, Absent, Absent))

HrirsAt(rows) ==
    Entry("hrirs", [Cfg("left", Absent, Absent, Absent) EXCEPT !.row_angles = rows])

Plain(key) == Entry(key, EmptyCfg)

Anthropometry(select) == Entry("anthropometry", Cfg(Absent, Absent, Absent, select))

Images(rear) == Entry("images", Cfg(Absent, Absent, rear, Absent))

NoTransforms == [image |-> FALSE, measurement |-> FALSE, hrir |-> FALSE]

AllTransforms == [image |-> TRUE, measurement |-> TRUE, hrir |-> TRUE]

DataPoint(spherical, missing, ears, rows, cols, hrir_len) ==
    [spherical |-> spherical, missing |-> missing, ears |-> ears,
     rows |-> rows, cols |-> cols, hrir_len |-> hrir_len, broken |-> {}]

Scenario(dp, fs, ts, gs, ids, req, excl, tf) ==
    [dp |-> dp, fs |-> fs, ts |-> ts, gs |-> gs, ids |-> ids, req |-> req,
     excl |-> excl, tf |-> tf, facade |-> NoFacade]

NothingMissing == [s \in Subjects |-> {}]

UnitLen == [s \in Subjects |-> 1]

PlainGrid == DataPoint(TRUE, NothingMissing, <<"left">>, <<-90, 0, 90>>, <<0>>, UnitLen)

\* shaping and batching: the three role specifications vary
FeatureChoices ==
    {<<>>, <<Hrirs("left", "time")>>, <<Plain("subject")>>,
     <<Plain("subject"), Plain("side")>>, <<Plain("side"), Plain("subject")>>,
     <<Anthropometry("head")>>, <<Images("True")>>}

TargetChoices ==
    {NoneSpec, SomeSpec(<<>>), SomeSpec(<<Plain("subject")>>),
     SomeSpec(<<Hrirs("left", "magnitude")>>),
     SomeSpec(<<Anthropometry(Absent)>>),
     SomeSpec(<<Plain("side"), Plain("collection"), Plain("subject")>>)}

GroupChoices ==
    {NoneSpec, SomeSpec(<<Plain("subject")>>),
     SomeSpec(<<Plain("collection"), Plain("side")>>)}

\* the HRIR length per subject varies where some role holds HRIRs
HrirLenChoices(fs, ts) ==
    IF HasKey(fs, "hrirs") \/ HasKey(OrEmpty(ts), "hrirs")
    THEN [Subjects -> 1..MaxHrirLen]
    ELSE {UnitLen}

ShapingScenarios ==
    UNION {{Scenario([PlainGrid EXCEPT !.hrir_len = hl], fs, ts, gs, NoneIds,
                     NoneSpec, SomeExclude({}), tf) :
                hl \in HrirLenChoices(fs, ts), gs \in GroupChoices,
                tf \in {NoTransforms, AllTransforms}} :
           fs \in FeatureChoices, ts \in TargetChoices}

\* id resolution: the include-list, the exclude-list and the catalog vary
IncludeChoices == {NoneIds, StrIds} \cup {ListIds(S) : S \in SUBSET Subjects}

ExcludeChoices == {NoExclude} \cup {SomeExclude(S) : S \in SUBSET Subjects}

MissingChoices == [Subjects -> {{}, {"anthropometry", "requirement"}}]

QuerySpecChoices ==
    {<<<<Plain("subject")>>, NoneSpec>>,
     <<<<Anthropometry("head")>>, NoneSpec>>,
     <<<<Hrirs("left", "time")>>, SomeSpec(<<Plain("requirement")>>)>>}

QueryScenarios ==
    {Scenario([PlainGrid EXCEPT !.missing = ms], q[1], SomeSpec(<<Plain("side")>>),
              NoneSpec, ids, q[2], excl, NoTransforms) :
        ms \in MissingChoices, q \in QuerySpecChoices,
        ids \in IncludeChoices, excl \in ExcludeChoices}

\* the angle grid: the grid, the hrirs side and the kind of data point vary
RowChoices ==
    {<<-90, 0, 90>>, <<-90, 0, 45>>, <<-180, -90, 0, 90>>, <<-90, 0, 90, 180>>,
     <<-180, -90, 0, 90, 180>>, <<0>>, <<-180>>, <<0, 90, 180, 270>>,
     <<-45, 45>>}

ColumnChoices == {<<0>>, <<-90, 0, 90>>, <<-90, 0, 45>>, <<-45, 45>>}

SideChoices == {Absent, "left", "both", "both-left", "both-right"}

GridScenarios ==
    {Scenario([PlainGrid EXCEPT !.spherical = sph, !.rows = rows, !.cols = cols],
              <<Hrirs(side, "time")>>, SomeSpec(<<Plain("subject")>>), NoneSpec,
              NoneIds, NoneSpec, SomeExclude({}), NoTransforms) :
        sph \in BOOLEAN, rows \in RowChoices, cols \in ColumnChoices,
        side \in SideChoices}

\* requested row angles: found, not found, and none requested at all
RequestScenarios ==
    {Scenario(PlainGrid, <<HrirsAt(req)>>, NoneSpec, NoneSpec, NoneIds, NoneSpec,
              SomeExclude({}), NoTransforms) :
        req \in {SomeAngles(<<0, 90>>), SomeAngles(<<30>>), SomeAngles(<<>>)}}

\* both ears of every subject in the catalog
EarScenarios ==
    {Scenario([PlainGrid EXCEPT !.ears = <<"left", "right">>, !.spherical = sph],
              <<Hrirs(side, Absent)>>,
              SomeSpec(<<Plain("side"), Plain("subject")>>), NoneSpec,
              ids, NoneSpec, NoExclude, AllTransforms) :
        sph \in BOOLEAN, side \in {"both-left", "left"},
        ids \in {NoneIds, ListIds(Subjects)}}

\* a plane-aware dataset: the assembler's specifications come from the facade
Facade(system, plane, plane_offset, angles, positive_angles, hrir_role, other_specs) ==
    [used |-> TRUE, system |-> system, plane |-> plane,
     plane_offset |-> plane_offset, plane_angles |-> angles,
     positive_angles |-> positive_angles, side |-> "left", domain |-> "magnitude_db",
     hrir_role |-> hrir_role, other_specs |-> other_specs]

FacadeGrid(system) ==
    DataPoint(system = "spherical", NothingMissing, <<"left">>,
              <<-180, -90, 0, 90>>, <<-90, 0, 90>>, UnitLen)

FacadeScenario(f) ==
    [Scenario(FacadeGrid(f.system), <<>>, NoneSpec, NoneSpec, NoneIds, NoneSpec,
              SomeExclude({}), NoTransforms) EXCEPT !.facade = f]

PlaneChoices == Planes \cup {"sagittal"}

OffsetChoices == {0, 90}

\* the plane, the coordinate system, the offset and the flag vary
PlaneScenarios ==
    {FacadeScenario(Facade(system, plane, offset, angles, positive, "features", <<>>)) :
        system \in {"interaural", "spherical"}, plane \in PlaneChoices,
        offset \in OffsetChoices, angles \in {NoneAngles, SomeAngles(<<0, 90>>)},
        positive \in BOOLEAN}

OtherSpecsChoices ==
    {<<>>,
     <<SpecEntry("target_spec", <<Plain("subject")>>)>>,
     <<SpecEntry("features_spec", <<Plain("subject")>>)>>,
     <<SpecEntry("group_spec", <<Plain("side")>>)>>,
     <<SpecEntry("features_spec", <<Plain("subject")>>),
       SpecEntry("target_spec", <<Plain("side")>>)>>}

\* the role of the HRIRs and the other specifications vary
RoleScenarios ==
    {FacadeScenario(Facade("spherical", "horizontal", 0, NoneAngles, FALSE,
                           role, other)) :
        role \in HrirRoles, other \in OtherSpecsChoices}

\* a measurement provider that raises for some subject
BrokenScenarios ==
    {Scenario([PlainGrid EXCEPT !.broken = {s}], q[1], q[2], NoneSpec, NoneIds,
              NoneSpec, SomeExclude({}), NoTransforms) :
        s \in Subjects,
        q \in {<<<<Hrirs("left", "time")>>, NoneSpec>>,
               <<<<Plain("subject")>>, SomeSpec(<<Anthropometry("head")>>)>>}}

\* plane-aware datasets whose Assembler fails: a plane the grid does not hold,
\* a measurement provider that raises, a catalog without HRIRs
FailingPlaneScenarios ==
    LET horizontal(offset) ==
            FacadeScenario(Facade("spherical", "horizontal", offset, NoneAngles,
                                  FALSE, "features", <<>>))
    IN {[horizontal(30) EXCEPT !.dp.hrir_len = hl] : hl \in [Subjects -> 1..MaxHrirLen]}
       \cup {[horizontal(0) EXCEPT !.dp.broken = {s}] : s \in Subjects}
       \cup {[horizontal(0) EXCEPT !.dp.missing = [s \in Subjects |-> {"hrirs"}]]}

RequirementChoices ==
    {NoneSpec, SomeSpec(<<>>), SomeSpec(<<Plain("requirement")>>),
     SomeSpec(<<Plain("requirement"), Plain("hrirs")>>),
     SomeSpec(<<HrirsAt(SomeAngles(<<0>>))>>)}

\* subject requirements next to specifications that may all be empty
RequirementScenarios ==
    {Scenario([PlainGrid EXCEPT !.missing = ms], fs, ts, gs, NoneIds, req, excl,
              NoTransforms) :
        ms \in MissingChoices,
        fs \in {<<>>, <<Plain("side")>>, <<Hrirs("left", "time")>>},
        ts \in {NoneSpec, SomeSpec(<<>>)},
        gs \in {NoneSpec, SomeSpec(<<>>), SomeSpec(<<Anthropometry(Absent)>>)},
        req \in RequirementChoices, excl \in {NoExclude, SomeExclude({})}}

Scenarios ==
    RequirementScenarios \cup FailingPlaneScenarios \cup BrokenScenarios \cup ShapingScenarios \cup QueryScenarios \cup GridScenarios
    \cup RequestScenarios \cup EarScenarios \cup PlaneScenarios
    \cup RoleScenarios

\* -------------------------------------------------------------- behaviour
Init ==
    /\ \E sc \in Scenarios :
        /\ datapoint = sc.dp
        /\ feature_spec = sc.fs
        /\ target_spec = sc.ts
        /\ group_spec = sc.gs
        /\ arg_subject_ids = sc.ids
        /\ subject_requirements = sc.req
        /\ arg_exclude_ids = sc.excl
        /\ transforms = sc.tf
        /\ facade = sc.facade
        /\ facade_pc = IF sc.facade.used THEN "validating" ELSE "none"
    /\ hrir_angles = NoAngles
    /\ self_planar_transform = NoTransform
    /\ plane_angles = <<>>
    /\ pc = "uninitialized"
    /\ error = ""
    /\ self_exclude_ids = NoExclude
    /\ self_specification = <<>>
    /\ ear_ids = <<>>
    /\ subject_ids = <<>>
    /\ sides = <<>>
    /\ self_selected_angles = <<>>
    /\ row_indices = <<>>
    /\ column_indices = <<>>
    /\ row_angles = <<>>
    /\ column_angles = <<>>
    /\ self_features = <<>>
    /\ self_targets = <<>>
    /\ self_groups = <<>>
    /\ calls = <<>>
    /\ result = NoResult

Next ==
    \/ MergeSpecification
    \/ ResolveIds
    \/ ResolveGrid
    \/ FetchExample
    \/ \E idx \in (-Len(self_features))..Len(self_features) : GetItemInt(idx)
    \/ \E start \in 0..Len(self_features) :
         \E stop \in start..Len(self_features) : GetItemSlice(start, stop)
    \/ GetLen
    \/ TargetShape
    \/ AvailableSubjectIds
    \/ InterauralPlaneMixinInit
    \/ SphericalPlaneMixinInit
    \/ PlaneMixinInit
    \/ CalcPlaneAngles
    \/ \E value \in BOOLEAN : SetPositiveAngles(value)

Spec == Init /\ [][Next]_vars

\* ------------------------------------------------------------ properties
Roles == {"features", "target", "group"}

RoleSpec(role) ==
    CASE role = "features" -> feature_spec
      [] role = "target" -> OrEmpty(target_spec)
      [] role = "group" -> OrEmpty(group_spec)

RoleStore(role) ==
    CASE role = "features" -> self_features
      [] role = "target" -> self_targets
      [] role = "group" -> self_groups

Queried == calls # <<>>

FilteredIds ==
    specification_based_ids(datapoint, self_specification, arg_subject_ids,
                            self_exclude_ids)

UnfilteredIds ==
    specification_based_ids(datapoint, self_specification, NoneIds, NoExclude)

EmptyDatasetError == "ValueError: Empty dataset"

ShapeError == "ValueError: Not all data points have the same shape"

\* C1: when the filtered catalog query and the unfiltered query for the same
\* merged specification both return no (subject, side) pair, construction fails
\* with an error and never reaches ready.
C1_EmptyCatalogFails ==
    (Queried /\ FilteredIds = <<>> /\ UnfilteredIds = <<>>)
        => (pc = "failed" /\ error = EmptyDatasetError)

C1_Witness ==
    /\ pc = "failed"
    /\ error = EmptyDatasetError
    /\ Len(calls) = 2
    /\ UnfilteredIds = <<>>

\* C2: when only the filtered query is empty, construction is ready with
\* length 0, no subject ids, no row/column angles and empty stores, and only
\* the catalog has been called.
C2_EmptyByFiltering ==
    (Queried /\ FilteredIds = <<>> /\ UnfilteredIds # <<>>)
        => /\ pc = "ready"
           /\ error = ""
           /\ DatasetLen = 0
           /\ subject_ids = <<>>
           /\ row_angles = <<>> /\ column_angles = <<>>
           /\ self_features = <<>> /\ self_targets = <<>> /\ self_groups = <<>>
           /\ \A i \in 1..Len(calls) : calls[i].fn = "specification_based_ids"
           /\ result.op = "len" => result.n = 0

C2_Witness ==
    /\ pc = "ready"
    /\ FilteredIds = <<>> /\ UnfilteredIds # <<>>
    /\ arg_exclude_ids.some /\ arg_exclude_ids.ids # {}
    /\ result.op = "len" /\ result.n = 0

ClaimedTwice(k) ==
    Cardinality({role \in Roles : HasKey(RoleSpec(role), k)}) > 1

\* C3 (as claimed): a construction in which one modality is claimed by more
\* than one of the feature, target and group specifications fails.
C3_DuplicateClaimFails ==
    (\E k \in Range(FillOrder) : ClaimedTwice(k)) => pc # "ready"

\* C4: the exclude argument of the catalog id query is the explicit
\* exclude-list when one is given, "exclude nothing" for an include-list with
\* no exclude-list, and none otherwise, which leaves the catalog's default
\* exclusion in force.
C4_ExcludeTruthTable ==
    Queried =>
        /\ arg_exclude_ids.some => calls[1].exclude = arg_exclude_ids
        /\ (~arg_exclude_ids.some /\ arg_subject_ids.kind = "list")
              => /\ calls[1].exclude = SomeExclude({})
                 /\ \A s \in arg_subject_ids.ids :
                        Matches(datapoint, self_specification, s)
                            => s \in Range(subject_ids)
        /\ (~arg_exclude_ids.some /\ arg_subject_ids.kind # "list")
              => /\ calls[1].exclude = NoExclude
                 /\ Range(subject_ids) \cap DefaultExcluded = {}

C4_Witness ==
    /\ Queried
    /\ ~arg_exclude_ids.some /\ arg_subject_ids.kind = "list"
    /\ calls[1].exclude = SomeExclude({})
    /\ Range(subject_ids) \cap DefaultExcluded # {}

\* the example a single-index result was taken from
ResultPos == PyIndex(DatasetLen, result.idx)

SingleReturned == result.op = "single" /\ result.error = ""

\* C5: in single-index retrieval a role with no modality yields an empty
\* sequence and a role with exactly one modality yields that modality's value
\* itself (of this example, after the on-demand transforms), not a 1-tuple.
C5_ShapingZeroOrOne ==
    SingleReturned =>
        \A role \in Roles :
            LET spec == RoleSpec(role)
                shaped == result.item[role]
                stored == RoleStore(role)[ResultPos]
            IN /\ Len(spec) = 0 => shaped = EmptyShaped
               /\ Len(spec) = 1 =>
                    /\ shaped.kind = "value"
                    /\ Len(shaped.items) = 1
                    /\ shaped.items[1].mod = spec[1].key
                    /\ shaped.items[1].subject \in {0, subject_ids[ResultPos]}
                    /\ shaped.items[1].side \in {"", sides[ResultPos]}
                    /\ ~ClaimedTwice(spec[1].key)
                          => shaped.items[1] = OnDemand(stored[1], transforms).val

C5_Witness ==
    /\ SingleReturned
    /\ Len(feature_spec) = 1 /\ Len(RoleSpec("target")) = 0
    /\ result.item.features.kind = "value"
    /\ result.item.features.items[1].mod = "hrirs"
    /\ result.item.features.items[1].stage = "transformed"
    /\ result.item.target = EmptyShaped

\* C6 (as claimed): a role with more than one modality yields a tuple whose
\* elements are in the insertion order of that role's specification.
C6_TupleInSpecificationOrder ==
    SingleReturned =>
        \A role \in Roles :
            Len(RoleSpec(role)) > 1 =>
                /\ result.item[role].kind = "tuple"
                /\ [i \in 1..Len(result.item[role].items) |->
                        result.item[role].items[i].mod] = Keys(RoleSpec(role))

\* what single-index retrieval returns for the 0-based index i
SingleAt(i) ==
    LET p == PyIndex(DatasetLen, i)
    IN get_single_item(self_features[p], self_targets[p], self_groups[p],
                       transforms)

BatchAsked == result.op = "batch" /\ result.start < result.stop

BatchIndices == result.start..(result.stop - 1)

\* C7: a batched retrieval over a slice of at least one index returns, for each
\* role, the values single-index retrieval returns for the selected indices,
\* stacked in index order; it fails only with the shape-mismatch error.
C7_BatchIsStackOfSingles ==
    BatchAsked =>
        /\ result.error \in {"", ShapeError}
        /\ result.error = "" =>
            \A role \in Roles :
                /\ Len(result.batch[role]) = result.stop - result.start
                /\ \A n \in 1..(result.stop - result.start) :
                        result.batch[role][n] = SingleAt(result.start + n - 1)[role]

C7_Witness ==
    /\ BatchAsked
    /\ result.error = ""
    /\ result.stop - result.start >= 2
    /\ result.batch.features[1] # result.batch.features[2]
    /\ result.batch.target[1] # result.batch.target[2]

ShapesDisagree ==
    \E role \in Roles : \E i, j \in BatchIndices :
        ShapeOf(SingleAt(i)[role]) # ShapeOf(SingleAt(j)[role])

\* C8: a batched retrieval over indices whose shaped examples differ in shape
\* in some role fails with the shape-mismatch error and returns no batch.
C8_ShapeMismatchFails ==
    (BatchAsked /\ ShapesDisagree) =>
        /\ result.error = ShapeError
        /\ result.batch = NoBatch

C8_Witness ==
    /\ BatchAsked
    /\ ShapesDisagree
    /\ result.error = ShapeError

\* a sequence of angles that is antisymmetric about zero
Antisymmetric(a) == \A i \in 1..Len(a) : a[i] = -a[Len(a) + 1 - i]

\* the angles of a without its entries at +180 or -180
WithoutHalfTurn(a) == SelectSeq(a, LAMBDA x : Abs(x) # 180)

\* exactly one entry of a lies at +180 or -180
SingularHalfTurn(a) == Cardinality({i \in 1..Len(a) : Abs(a[i]) = 180}) = 1

\* antisymmetric about zero, where a single +-180 entry maps to itself
AntisymmetricAboutZero(a) ==
    \/ Antisymmetric(a)
    \/ SingularHalfTurn(a) /\ Antisymmetric(WithoutHalfTurn(a))

BothSides ==
    /\ HasKey(self_specification, "hrirs")
    /\ StartsWithBoth(Item(self_specification, "hrirs").cfg.side)

GridResolved == pc \in {"building-stores", "ready"} /\ ear_ids # <<>>

SymmetryErrors ==
    {"ValueError: symmetric azimuths", "ValueError: symmetric lateral angles"}

NoMeasurementFetched == \A i \in 1..Len(calls) : calls[i].fn \notin MeasurementFns

\* the axis that a "both-" side mirrors
MirroredAxis == IF datapoint.spherical THEN row_angles ELSE column_angles

\* C9: with a "both-" hrirs side construction goes on only if the mirrored
\* axis (rows for a spherical data point, columns otherwise) is antisymmetric
\* about zero: {-90, 0, 90} is accepted, {-90, 0, 45} fails the construction,
\* and that failure comes before any measurement is fetched.
C9_BothSidesNeedSymmetry ==
    /\ (BothSides /\ GridResolved) => AntisymmetricAboutZero(MirroredAxis)
    /\ (BothSides /\ MirroredAxis = <<-90, 0, 90>>) => error \notin SymmetryErrors
    /\ (BothSides /\ MirroredAxis = <<-90, 0, 45>>)
            => pc = "failed" /\ error \in SymmetryErrors
    /\ error \in SymmetryErrors => pc = "failed" /\ NoMeasurementFetched

C9_Witness ==
    /\ BothSides
    /\ datapoint.spherical
    /\ row_angles = <<-90, 0, 45>>
    /\ column_angles = <<-90, 0, 90>>
    /\ pc = "failed"
    /\ error = "ValueError: symmetric azimuths"
    /\ NoMeasurementFetched

\* C10 (as claimed): the "both-" symmetry check accepts a row-angle grid that is
\* antisymmetric apart from a single entry at -180 or at +180.
C10_SingularHalfTurnAccepted ==
    (/\ BothSides
     /\ datapoint.spherical
     /\ row_angles # <<>>
     /\ SingularHalfTurn(row_angles)
     /\ Antisymmetric(WithoutHalfTurn(row_angles)))
        => error # "ValueError: symmetric azimuths"

\* the positions in calls of the calls to fn
CallsTo(fn) == {i \in 1..Len(calls) : calls[i].fn = fn}

\* C11: in a construction whose merged specification holds hrirs the angle-grid
\* provider is called exactly once, for the first resolved subject, and every
\* HRIR fetch, one per resolved (subject, side) and role holding hrirs, uses the
\* row and column indices of that one resolution.
C11_GridResolvedOnce ==
    /\ Cardinality(CallsTo("hrir_angle_indices")) <= 1
    /\ (GridResolved /\ HasKey(self_specification, "hrirs")) =>
          /\ Cardinality(CallsTo("hrir_angle_indices")) = 1
          /\ \A i \in CallsTo("hrir_angle_indices") :
                calls[i].subject = subject_ids[1]
    /\ \A i \in CallsTo("hrir") :
          /\ calls[i].row_indices = row_indices
          /\ calls[i].column_indices = column_indices
          /\ \E g \in CallsTo("hrir_angle_indices") : g < i
    /\ pc = "ready" =>
          \A role \in Roles : HasKey(RoleSpec(role), "hrirs") =>
              \A n \in 1..Len(ear_ids) :
                  \E i \in CallsTo("hrir") :
                      /\ calls[i].subject = ear_ids[n][1]
                      /\ calls[i].side = ear_ids[n][2]

C11_Witness ==
    /\ pc = "ready"
    /\ Cardinality(CallsTo("hrir_angle_indices")) = 1
    /\ Cardinality({calls[i].subject : i \in CallsTo("hrir")}) > 1
    /\ row_indices = <<2, 3>>

AvailableAsked == pc = "ready" /\ result.op = "available_subject_ids"

\* the subjects an access may report: those matching the merged specification
\* and outside the dataset's exclude-list, whatever the include-list says
Reportable ==
    {s \in Subjects :
        /\ Matches(datapoint, self_specification, s)
        /\ s \notin (IF self_exclude_ids.some THEN self_exclude_ids.ids
                     ELSE DefaultExcluded)}

\* the subjects the include-list alone kept out of the dataset
LeftOutByInclude == Reportable \ Range(subject_ids)

\* C12: every access of available_subject_ids queries the catalog with the merged
\* specification and the dataset's exclude-list and without its include-list:
\* a subject left out only by the include-list is reported, an excluded subject
\* never is.
C12_AvailableIgnoresInclude ==
    AvailableAsked =>
        /\ result.query = <<QueryCall(self_specification, NoneIds, self_exclude_ids)>>
        /\ Range(result.ids) = IF datapoint.ears = <<>> THEN {} ELSE Reportable
        /\ result.ids = SetToSeq(Range(result.ids))
        /\ datapoint.ears # <<>> => LeftOutByInclude \subseteq Range(result.ids)
        /\ self_exclude_ids.some => Range(result.ids) \cap self_exclude_ids.ids = {}
        /\ (result.error # "") = (result.ids = <<>>)

C12_Witness ==
    /\ AvailableAsked
    /\ LeftOutByInclude # {}
    /\ LeftOutByInclude \subseteq Range(result.ids)
    /\ self_exclude_ids.some /\ self_exclude_ids.ids # {}

\* the combinations of coordinate system, plane and offset that are not available
InvalidCombination(system, plane, plane_offset) ==
    \/ /\ system = "interaural"
       /\ \/ plane = "vertical"
          \/ plane \notin Planes
          \/ plane \in {"horizontal", "frontal"} /\ plane_offset # 0
    \/ /\ system = "spherical"
       /\ \/ plane = "interaural"
          \/ plane \notin Planes
          \/ plane \in {"median", "frontal"} /\ plane_offset # 0

Validated == facade.used /\ facade_pc # "validating"

RejectedByValidation ==
    /\ facade_pc = "failed"
    /\ ~self_planar_transform.built

\* C13: plane-aware construction fails, before a Plane Transform is built and
\* before the catalog is queried, for exactly the combinations of coordinate
\* system, plane and offset that are not available; every other combination
\* passes the validation.
C13_InvalidCombinationsFail ==
    Validated =>
        /\ RejectedByValidation =
              InvalidCombination(facade.system, facade.plane, facade.plane_offset)
        /\ RejectedByValidation =>
              /\ error # ""
              /\ calls = <<>>
              /\ pc = "uninitialized"
              /\ hrir_angles = NoAngles
        /\ ~RejectedByValidation => self_planar_transform.built

C13_Witness ==
    /\ RejectedByValidation
    /\ facade.system = "interaural"
    /\ facade.plane = "frontal"
    /\ facade.plane_offset # 0

\* the rotation a plane is described by in each coordinate system
RotationOf(system, plane) ==
    CASE plane \in {"horizontal", "interaural"} -> "yaw"
      [] plane \in {"median", "vertical"} -> "pitch"
      [] plane = "frontal" -> "roll"

\* what no plane angles at all stand for, as <<lateral, vertical>> in the
\* interaural system and <<azimuth, elevation>> in the spherical one
WidestRange(system, rotation, offset) ==
    CASE system = "interaural" /\ rotation = "yaw" ->
            <<NoneAngles, SomeAngles(<<offset - 180, offset>>)>>
      [] system = "interaural" /\ rotation = "pitch" ->
            <<SomeAngles(<<offset>>), NoneAngles>>
      [] system = "interaural" /\ rotation = "roll" ->
            <<NoneAngles, SomeAngles(<<offset - 90, offset + 90>>)>>
      [] system = "spherical" /\ rotation = "yaw" ->
            <<NoneAngles, SomeAngles(<<offset>>)>>
      [] system = "spherical" /\ rotation = "pitch" ->
            <<SomeAngles(<<offset - 180, offset>>), NoneAngles>>
      [] system = "spherical" /\ rotation = "roll" ->
            <<SomeAngles(<<offset - 90, offset + 90>>), NoneAngles>>

\* the pair a conversion returned, in the order the coordinate system names it
AsPair(system, angles) ==
    IF system = "interaural" THEN <<angles.orthogonal, angles.fundamental>>
    ELSE <<angles.fundamental, angles.orthogonal>>

NothingAsked == Validated /\ ~RejectedByValidation /\ ~facade.plane_angles.some

\* C14: with no plane angles asked the conversions of the facade return the
\* widest range at every offset instead of failing: the pair the construction
\* holds is the one of the table, and so is the result of each of the six
\* conversions at each offset.
C14_NoneGivesWidestRange ==
    /\ NothingAsked =>
          AsPair(facade.system, hrir_angles) =
              WidestRange(facade.system, RotationOf(facade.system, facade.plane),
                          facade.plane_offset)
    /\ \A offset \in OffsetChoices :
          /\ AsPair("interaural", Interaural_lateral_vertical_from_yaw(NoneAngles, offset))
                = WidestRange("interaural", "yaw", offset)
          /\ AsPair("interaural", Interaural_lateral_vertical_from_pitch(NoneAngles, offset))
                = WidestRange("interaural", "pitch", offset)
          /\ AsPair("interaural", Interaural_lateral_vertical_from_roll(NoneAngles, offset))
                = WidestRange("interaural", "roll", offset)
          /\ AsPair("spherical", Spherical_azimuth_elevation_from_yaw(NoneAngles, offset))
                = WidestRange("spherical", "yaw", offset)
          /\ AsPair("spherical", Spherical_azimuth_elevation_from_pitch(NoneAngles, offset))
                = WidestRange("spherical", "pitch", offset)
          /\ AsPair("spherical", Spherical_azimuth_elevation_from_roll(NoneAngles, offset))
                = WidestRange("spherical", "roll", offset)

C14_Witness ==
    /\ NothingAsked
    /\ facade.system = "interaural"
    /\ facade.plane = "interaural"
    /\ facade.plane_offset # 0
    /\ hrir_angles.fundamental = SomeAngles(<<facade.plane_offset - 180,
                                              facade.plane_offset>>)
    /\ ~hrir_angles.orthogonal.some

\* C15: a write of positive_angles sets the flag of the Plane Transform and
\* replaces plane_angles by what calc_plane_angles gives, with the new flag, over
\* the same grid and mask; the ids, the grid, the length and the three stores
\* stay as they are and neither the catalog nor a provider is called.
C15_WriteRecomputesPlaneAngles ==
    [][result'.op = "set_positive_angles" =>
          /\ self_planar_transform' =
                [self_planar_transform EXCEPT !.positive_angles = result'.flag]
          /\ plane_angles' = calc_plane_angles(self_planar_transform', row_angles,
                                               column_angles, selection_mask)
          /\ UNCHANGED <<args, attrs, pc, error, calls>>
          /\ DatasetLen' = DatasetLen]_vars

C15_Witness ==
    /\ result.op = "set_positive_angles"
    /\ result.flag /\ ~facade.positive_angles
    /\ self_planar_transform.positive_angles
    /\ \E i \in 1..Len(plane_angles) : plane_angles[i] > 180
    /\ Len(self_features) > 1

\* C16: a second write of positive_angles with the value of the write just
\* before it leaves plane_angles and the flag as the first write left them.
C16_RepeatedWriteChangesNothing ==
    [][(/\ result.op = "set_positive_angles"
        /\ result'.op = "set_positive_angles"
        /\ result'.flag = result.flag)
       => UNCHANGED <<plane_angles, self_planar_transform>>]_vars

C16_Witness ==
    /\ result.op = "set_positive_angles"
    /\ result.n = 2
    /\ self_planar_transform.positive_angles = result.flag
    /\ plane_angles # <<>>

\* the steps of a construction, in the order of the code
ConstructionOrder ==
    {<<"uninitialized", "resolving-ids">>, <<"resolving-ids", "resolving-grid">>,
     <<"resolving-grid", "building-stores">>, <<"building-stores", "ready">>,
     \* no id left by the filters, an empty view: there is no store to fill
     <<"resolving-ids", "ready">>}

OrderedStep ==
    \/ pc' = pc
    \/ <<pc, pc'>> \in ConstructionOrder
    \/ pc \notin {"ready", "failed"} /\ pc' = "failed"

QueryCalls == CallsTo("specification_based_ids")

ProviderCalls == (1..Len(calls)) \ QueryCalls

MeasurementCalls == {i \in 1..Len(calls) : calls[i].fn \in MeasurementFns}

LogOrdered ==
    /\ pc \in {"uninitialized", "resolving-ids"} => calls = <<>>
    /\ pc = "resolving-grid" => QueryCalls # {} /\ ProviderCalls = {}
    /\ \A i \in ProviderCalls : \A q \in QueryCalls : q < i
    /\ \A i \in MeasurementCalls :
          \* past the grid and its symmetry check; a later failure is the provider's
          /\ pc \in {"building-stores", "ready", "failed"}
          /\ pc = "failed" => error = "ProviderError"
          /\ \A g \in CallsTo("hrir_angle_indices") : g < i
          /\ HasKey(self_specification, "hrirs") => CallsTo("hrir_angle_indices") # {}
          /\ <<calls[i].subject, calls[i].side>> \in Range(FilteredIds)

\* C17: a construction goes from uninitialized through resolving-ids and
\* building-stores to ready and never back: the catalog query comes before the
\* resolution of the angle grid and its symmetry check, these come before every
\* fetch from a measurement provider, and nothing is fetched for a (subject,
\* side) the catalog query did not return.
C17_ConstructionInOrder == []LogOrdered /\ [][OrderedStep]_vars

C17_Witness ==
    /\ pc = "ready"
    /\ Len(ear_ids) > 1
    /\ CallsTo("hrir_angle_indices") # {}
    /\ Cardinality(MeasurementCalls) > 1
    /\ \E s \in Subjects :
          /\ Matches(datapoint, self_specification, s)
          /\ s \notin Range(subject_ids)

\* a value of a retrieved item that an on-demand transform has worked on
TransformedIn(shaped) ==
    \E i \in 1..Len(shaped.items) : shaped.items[i].stage = "transformed"

StoredRaw ==
    \A role \in Roles : \A i \in 1..Len(RoleStore(role)) :
        \A k \in 1..Len(RoleStore(role)[i]) : RoleStore(role)[i][k].val.stage = "raw"

\* C18: once the dataset is ready no length, retrieval, batched retrieval,
\* target_shape or available_subject_ids call changes its ids, its grid or an
\* entry of its three stores, and the retrieval of one index twice in a row
\* returns the same.
C18_ReadyViewIsNotChanged ==
    [][pc = "ready" =>
          /\ UNCHANGED <<attrs, args, pc>>
          /\ (/\ result.op = "single"
              /\ result'.op = "single"
              /\ result'.idx = result.idx) => result' = result]_vars

C18_Witness ==
    /\ Returned
    /\ result.op = "single"
    /\ result.error = ""
    /\ TransformedIn(result.item.features)
    /\ StoredRaw
    /\ Len(self_features) > 1

\* the value was fetched or noted for this (subject, side)
BelongsTo(val, pair) ==
    /\ val.mod \in {"side", "collection"} \/ val.subject = pair[1]
    /\ val.mod \in {"subject", "collection"} \/ val.side = pair[2]

ConstructionRaised == pc = "failed" \/ facade_pc = "failed"

\* C19: a construction that completes with ids has three stores of one length,
\* the number of (subject, side) pairs of the filtered catalog query, which is
\* the length it reports; entry i of each store, of subject_ids and of sides
\* belongs to the i-th pair. A construction a step of which raised gives no
\* dataset: no operation is ever answered.
C19_StoresFollowIds ==
    /\ (pc = "ready" /\ ear_ids # <<>>) =>
          /\ ear_ids = FilteredIds
          /\ DatasetLen = Len(FilteredIds)
          /\ Len(subject_ids) = Len(FilteredIds) /\ Len(sides) = Len(FilteredIds)
          /\ \A role \in Roles : Len(RoleStore(role)) = Len(FilteredIds)
          /\ \A i \in 1..Len(FilteredIds) :
                /\ subject_ids[i] = FilteredIds[i][1]
                /\ sides[i] = FilteredIds[i][2]
                /\ \A role \in Roles :
                      /\ Keys(RoleStore(role)[i]) =
                            SelectSeq(FillOrder, LAMBDA k : HasKey(RoleSpec(role), k))
                      /\ \A k \in 1..Len(RoleStore(role)[i]) :
                            BelongsTo(RoleStore(role)[i][k].val, FilteredIds[i])
          /\ result.op = "len" => result.n = Len(FilteredIds)
    /\ ConstructionRaised => ~Returned /\ result = NoResult

C19_Witness ==
    /\ Returned
    /\ result.op = "len"
    /\ result.n = Len(datapoint.ears) * MaxSubjects
    /\ Len(datapoint.ears) > 1
    /\ HasKey(feature_spec, "hrirs")

C19_RaisedWitness ==
    /\ pc = "failed"
    /\ error = "ProviderError"
    /\ Len(self_features) > Len(self_targets)

\* the facade is past the statement that calls the Assembler or has raised in
\* PlaneMixin.__init__
SpecsBuilt ==
    /\ facade.used
    /\ self_planar_transform.built
    /\ facade_pc # "building-spec"

\* other_specs names a specification for the role of the HRIRs
RoleClaimedTwice == SpecNameOf(facade.hrir_role) \in KeySet(facade.other_specs)

OtherSpecOf(role) ==
    IF HasKey(facade.other_specs, SpecNameOf(role))
    THEN Item(facade.other_specs, SpecNameOf(role)).val
    ELSE <<>>

AssemblerInvoked == facade_pc \in {"assembling", "done"}

\* C20: the facade hands the HRIR specification to the Assembler under the role
\* hrir_role names, the other roles getting the specifications of other_specs;
\* when other_specs holds a specification of that same role the construction
\* fails before the Assembler is invoked.
C20_HrirsUnderChosenRole ==
    SpecsBuilt =>
        /\ RoleClaimedTwice =>
              /\ facade_pc = "failed"
              /\ error = "ValueError: role is already taken by the HRIRs"
              /\ pc = "uninitialized"
              /\ calls = <<>>
              /\ feature_spec = <<>> /\ target_spec = NoneSpec /\ group_spec = NoneSpec
        /\ AssemblerInvoked =>
              /\ ~RoleClaimedTwice
              /\ \A role \in Roles :
                    RoleSpec(role) =
                        IF role = facade.hrir_role
                        THEN HrirsSpec(facade.side, facade.domain, hrir_angles)
                        ELSE OtherSpecOf(role)
        /\ (~RoleClaimedTwice /\ ~AssemblerInvoked) =>
              /\ facade.hrir_role # "features"
              /\ error = "TypeError"

C20_Witness ==
    /\ SpecsBuilt
    /\ RoleClaimedTwice
    /\ facade.hrir_role = "features"
    /\ Len(facade.other_specs) > 1
    /\ facade_pc = "failed"

C20_HandedWitness ==
    /\ facade_pc = "done"
    /\ facade.hrir_role = "target"
    /\ HasKey(OrEmpty(target_spec), "hrirs")
    /\ feature_spec = <<Plain("subject")>>

\* the angles of an axis of the grid that a request lets through
Restricted(available, request) ==
    IF request.some
    THEN SelectSeq(available, LAMBDA a : a \in Range(request.v))
    ELSE available

PlaneGridResolved == facade.used /\ GridResolved

PlaneAnglesComputed == facade_pc = "done"

\* the plane angles of the grid and the mask the Assembler resolved
PlaneAnglesOfGrid ==
    calc_plane_angles(self_planar_transform, row_angles, column_angles,
                      selection_mask)

PlaneAnglesExposed ==
    /\ ~PlaneAnglesComputed => plane_angles = <<>>
    /\ pc # "ready" => ~PlaneAnglesComputed
    /\ PlaneAnglesComputed => plane_angles = PlaneAnglesOfGrid

\* the only steps that assign plane_angles: the one at the end of the
\* construction, taken once from a ready Assembler, and a later write of
\* positive_angles
PlaneAnglesStep ==
    /\ (~PlaneAnglesComputed /\ PlaneAnglesComputed') =>
          /\ pc = "ready" /\ facade_pc = "assembling"
          /\ UNCHANGED <<attrs, calls, self_planar_transform>>
    /\ PlaneAnglesComputed => PlaneAnglesComputed'
    /\ plane_angles' # plane_angles =>
          \/ ~PlaneAnglesComputed /\ PlaneAnglesComputed'
          \/ PlaneAnglesComputed /\ result'.op = "set_positive_angles"

\* C22: the facade computes plane_angles once in a construction, after the
\* Assembler has become ready, from the grid and the mask the Assembler
\* resolved; when the Assembler fails calc_plane_angles is not called and no
\* plane_angles is exposed.
C22_PlaneAnglesAfterReady == []PlaneAnglesExposed /\ [][PlaneAnglesStep]_vars

C22_Witness ==
    /\ PlaneAnglesComputed
    /\ result = NoResult
    /\ Len(plane_angles) = Len(row_angles) * Len(column_angles)
    /\ Len(row_angles) < Len(datapoint.rows)
    /\ Len(subject_ids) > 1

C22_FailedWitness ==
    /\ facade.used
    /\ pc = "failed"
    /\ error = "ProviderError"
    /\ self_features # <<>>
    /\ plane_angles = <<>>

\* a view that is empty by filtering: ready without any id
EmptyView == Returned /\ ear_ids = <<>>

\* C23: on a view that is empty by filtering every ready-state operation
\* completes without raising: the length is 0, the batched retrieval of the
\* full slice gives an empty batch and available_subject_ids gives a tuple of
\* ids, which may be empty.
C23_EmptyViewNeverRaises ==
    (EmptyView /\ result.op # "none") =>
        /\ result.error = ""
        /\ result.op = "len" => result.n = 0
        /\ result.op = "batch" => result.batch = NoBatch
        /\ result.op = "available_subject_ids" =>
              result.ids = SetToSeq(Range(result.ids))

AllSpecificationsEmpty ==
    /\ feature_spec = <<>>
    /\ OrEmpty(target_spec) = <<>>
    /\ OrEmpty(group_spec) = <<>>

NoSpecificationError == "ValueError: At least one specification should not be empty"

\* C24: with an empty feature, target and group specification the construction
\* fails before the catalog is queried, also when subject_requirements holds
\* keys.
C24_EmptySpecificationsFail ==
    (~facade.used /\ pc # "uninitialized") =>
        (AllSpecificationsEmpty <=>
            /\ pc = "failed"
            /\ error = NoSpecificationError
            /\ calls = <<>>)

C24_Witness ==
    /\ AllSpecificationsEmpty
    /\ subject_requirements.some /\ Len(subject_requirements.v) > 1
    /\ pc = "failed"
    /\ error = NoSpecificationError

\* what the three roles specify, without the subject requirements
OwnSpecification ==
    MergedSpecification(feature_spec, OrEmpty(target_spec), OrEmpty(group_spec))

\* the keys and configurations a catalog query was given
QueriedWith(call) == call.fn = "specification_based_ids" /\ call.spec = Keys(self_specification)

\* every record holds modalities of its own role's specification only
RecordsOfOwnRole ==
    \A role \in Roles : \A i \in 1..Len(RoleStore(role)) :
        /\ KeySet(RoleStore(role)[i]) = KeySet(RoleSpec(role)) \cap Range(FillOrder)
        /\ KeySet(RoleStore(role)[i]) \cap
              (KeySet(OrEmpty(subject_requirements)) \ KeySet(RoleSpec(role))) = {}

\* the angle grid is resolved for the roles only, as they ask for it
GridOfOwnRoles ==
    \A g \in CallsTo("hrir_angle_indices") :
        /\ HasKey(OwnSpecification, "hrirs")
        /\ calls[g].row_angles = Item(OwnSpecification, "hrirs").cfg.row_angles
        /\ calls[g].column_angles = Item(OwnSpecification, "hrirs").cfg.column_angles

\* C25: the keys of subject_requirements take part in the catalog id queries
\* only, those of the construction and of available_subject_ids: they add no
\* entry to a features, target or group record, every record holds only
\* modalities its own role's specification names, and nothing else of the
\* dataset comes from them.
C25_RequirementsOnlyInQueries ==
    (~facade.used /\ pc = "ready") =>
        /\ RecordsOfOwnRole
        /\ \A i \in QueryCalls : QueriedWith(calls[i])
        /\ result.op = "available_subject_ids" => QueriedWith(result.query[1])
        /\ GridOfOwnRoles

====
